---- MODULE Spec2Model ----
(***************************************************************************)
(* Model of instalooter/pages.py: PageIterator (the page loader generator, *)
(* __length_hint__, __next__), its Hashtag/Profile subclasses and          *)
(* ProfileIterator.from_username, together with the remote server and the  *)
(* shared requests.Session they talk to.                                   *)
(***************************************************************************)
EXTENDS Integers, Sequences, FiniteSets, TLC

\* ---------------------------------------------------------------- bounds
\* Number of page positions the server holds; pulls stop fetching past it.
MaxPages == 3
\* Number of time.sleep(10) retries one run may take.
MaxRetries == 2
\* Number of requests after which no further public call starts a fetch.
MaxRequests == 4
\* Number of cookies in the session's jar.
MaxCookies == 2

\* ------------------------------------------------------ program constants
PAGE_SIZE == 200
\* time.sleep(10) left out
SleepNone == 10 - 10
SLEEP == 10
\* Python's None, for the integer-valued fields (_cursor, _total, tokens).
None == -1

\* ------------------------------------------------------------ input sets
\* Values of media.count the server may report (ceil and floor differ on 201).
Counts == {200, 201}
\* The key of the media section a response may lack.
Missing == {"none", "count", "page_info", "has_next_page", "end_cursor", "edges"}
\* Shapes of a decoded data object that is not a navigable media section.
BrokenShapes == {"dataNull", "noGeneric", "genericNull", "noMedia", "mediaNull"}
OwnerIds == {1, 2}
\* session.headers['X-CSRFToken'] when the session has one, and when it has none.
CsrfValues == {"csrftoken", "absent"}

VARIABLES
    finished,       \* self._finished
    cursor,         \* self._cursor (None or the token of the next page)
    current_page,   \* self._current_page
    total,          \* self._total (None or a number of pages)
    done,           \* self._done
    data_it,        \* self._data_it: "suspended", "dead" (the generator ended), "none" (no iterator)
    kind,           \* the subclass: "hashtag" or "profile"; "none" before construction
    target,         \* self.hashtag or self.owner_id
    rhx,            \* self.rhx
    headers,        \* session.headers: [csrf |-> token or "absent", gis |-> <<>> or <<digest>>]
    cookies,        \* session.cookies: a sequence of [name, value]
    account,        \* the profile page's embedded payload, as the server holds it
    resolved,       \* outcome of from_username: "none", "ok" or the exception raised
    op,             \* the public call in progress: "idle", "next", "hint"
    pc,             \* where the loader is: "idle", "load", "sleep", "yielded", "raised"
    data,           \* the data object the loader yielded (or died on)
    result,         \* what the last finished public call returned or raised
    server,         \* the page the server holds at each position (NoPage: not yet asked)
    clock,          \* time elapsed in time.sleep
    retries,        \* number of sleeps taken
    requests,       \* log of the GET requests sent: [after, time, gis, prev, resp, op, seen]
    yielded,        \* log of the objects __next__ returned
    hinted,         \* <<>> or <<v>>, v the value the last finished __length_hint__ returned
    other           \* a second iterator on the same session: [cursor, finished]

vars == <<finished, cursor, current_page, total, done, data_it, kind, target, rhx,
          headers, cookies, account, resolved, op, pc, data, result, server, clock,
          retries, requests, yielded, hinted, other>>

iterVars == <<finished, cursor, current_page, total, done, data_it>>

\* ------------------------------------------------------------ the server
NoPage ==
    [shape |-> "unset", missing |-> "none", count |-> 0, has_next_page |-> FALSE,
     edges |-> 0, end_cursor |-> None, pos |-> 0]

\* The token the server hands out with the page at position p: it names p + 1.
TokenOf(p) == p

\* The position a request with cursor c asks for.
PositionOf(c) == IF c = None THEN 1 ELSE c + 1

\* The data objects the server may hold at position p. A key the media section
\* lacks has no value (its field is left at the default), and the fields the
\* code cannot reach on such a page are not varied.
PagesAt(p) ==
    {[shape |-> s, missing |-> "none", count |-> 0, has_next_page |-> FALSE,
      edges |-> 0, end_cursor |-> None, pos |-> p] : s \in BrokenShapes}
    \cup
    {pg \in [shape : {"media"}, missing : Missing, count : Counts,
             has_next_page : BOOLEAN, edges : 0..1,
             end_cursor : {None, TokenOf(p)}, pos : {p}] :
        /\ pg.end_cursor = (IF pg.has_next_page /\ pg.missing # "end_cursor"
                            THEN TokenOf(p) ELSE None)
        /\ (pg.missing # "none" => pg.count = 200)
        /\ (pg.missing \in {"page_info", "has_next_page"} =>
               ~pg.has_next_page /\ pg.edges = 1)
        /\ (pg.missing = "edges" => pg.edges = 0)
        /\ (pg.missing = "end_cursor" /\ ~pg.has_next_page => pg.edges = 1)}

\* A response whose envelope lacks the data key, and one whose body is JSON null.
Malformed(s, p) ==
    [shape |-> s, missing |-> "none", count |-> 0, has_next_page |-> FALSE,
     edges |-> 0, end_cursor |-> None, pos |-> p]

\* What the server may answer to a request for position p: the page it holds
\* there (chosen when first asked, the same ever after), or a malformed body.
Responses(p) ==
    (IF server[p] = NoPage THEN PagesAt(p) ELSE {server[p]})
    \cup (IF retries < MaxRetries THEN {Malformed("noData", p)} ELSE {})
    \cup {Malformed("bodyNull", p)}

IsPage(r) == r.shape \notin {"noData", "bodyNull", "unset"}

\* ----------------------------------------------------- pure helpers
\* int(math.ceil(c / self.PAGE_SIZE)) with true division
CeilDivFloor(c, n) == c \div n
CeilDiv(c, n) == (c + n - 1) \div n

\* _getparams(cursor) of the two subclasses, serialized by json.dumps
GetparamsNoCursor(c) ==
    [key |-> IF kind = "hashtag" THEN "tag_name" ELSE "id", value |-> target,
     first |-> PAGE_SIZE, after |-> None]
Getparams(c) ==
    [key |-> IF kind = "hashtag" THEN "tag_name" ELSE "id", value |-> target,
     first |-> PAGE_SIZE, after |-> c]

\* hashlib.md5("{}:{}:{}".format(rhx, csrf, json_params)).hexdigest()
Md5(r, csrf, params) == [rhx |-> r, csrf |-> csrf, params |-> params]

\* A second iterator constructed on the same session: a HashtagIterator with
\* its own hashtag and rhx, as __init__ leaves it (lines 42-51, 129-131).
Other == [kind |-> "hashtag", target |-> 2, rhx |-> "rhx2"]
OtherFresh == [cursor |-> None, finished |-> FALSE]

\* HashtagIterator._getparams of the second iterator (lines 133-140).
OtherGetparams(c) ==
    [key |-> "tag_name", value |-> Other.target, first |-> PAGE_SIZE, after |-> c]

\* Outcome of data['data'][generic][media]['count'] on a response body r.
CountOutcome(r) ==
    CASE r.shape \in {"noData", "noGeneric", "noMedia"} -> "KeyError"
      [] r.shape \in {"bodyNull", "dataNull", "genericNull", "mediaNull"} -> "TypeError"
      [] r.shape = "media" /\ r.missing = "count" -> "KeyError"
      [] OTHER -> "ok"

\* Outcome of data[generic][media] on a yielded data object d (line 101).
MediaOutcome(d) ==
    CASE d.shape \in {"noGeneric", "noMedia"} -> "KeyError"
      [] d.shape \in {"dataNull", "genericNull"} -> "TypeError"
      [] OTHER -> "ok"

\* Outcome of media_info['page_info']['has_next_page'] (line 106).
HasNextOutcome(d) ==
    CASE d.shape = "mediaNull" -> "TypeError"
      [] d.missing \in {"page_info", "has_next_page"} -> "KeyError"
      [] OTHER -> "ok"

\* Outcome of media_info['edges'] (line 108).
EdgesOutcome(d) == IF d.missing = "edges" THEN "KeyError" ELSE "ok"

\* Outcome of media_info['page_info']['end_cursor'] (line 112).
EndCursorOutcome(d) == IF d.missing = "end_cursor" THEN "KeyError" ELSE "ok"

\* data[self.section_generic], the object __next__ returns.
GenericSection(d) == [d EXCEPT !.shape = "generic"]

Result(o, k, h, obj) == [op |-> o, kind |-> k, hint |-> h, obj |-> obj]
NoResult == Result("none", "none", 0, NoPage)

StopIteration(o) == Result(o, "StopIteration", 0, NoPage)
Raised(o, exc) == Result(o, exc, 0, NoPage)

\* ------------------------------------------------------------ construction
\* PageIterator.__init__ (with the subclass's own field), lines 42-51.
Constructed(k, t, r) ==
    /\ finished' = FALSE
    /\ cursor' = None
    /\ current_page' = 0
    /\ total' = None
    /\ done' = 0
    /\ data_it' = "suspended"
    /\ kind' = k
    /\ target' = t
    /\ rhx' = r

NoAccount == [shape |-> "none", id |-> 0, is_private |-> FALSE,
              followed_by_viewer |-> FALSE, rhx_gis |-> "none"]

\* The embedded payloads a profile page may carry: one with a ProfilePage entry,
\* one without, and a page with no payload or with one that does not parse.
Accounts ==
    [shape : {"profile"}, id : OwnerIds, is_private : BOOLEAN,
     followed_by_viewer : BOOLEAN, rhx_gis : {"rhx"}]
    \cup {[NoAccount EXCEPT !.shape = s] : s \in {"noProfilePage", "absent", "malformed"}}

Cookie == [name : {"ds_user_id"}, value : OwnerIds]
            \cup {[name |-> "sessionid", value |-> 1]}

Jars == UNION {[1..n -> Cookie] : n \in 0..MaxCookies}

\* The state right after HashtagIterator(...) or ProfileIterator(...) returned.
Init ==
    /\ finished = FALSE
    /\ cursor = None
    /\ current_page = 0
    /\ total = None
    /\ done = 0
    /\ data_it = "suspended"
    /\ kind \in {"hashtag", "profile"}
    /\ target = 1
    /\ rhx = "rhx"
    /\ headers \in [csrf : CsrfValues, gis : {<<>>}]
    /\ cookies = <<>>
    /\ account = NoAccount
    /\ resolved = "none"
    /\ op = "idle"
    /\ pc = "idle"
    /\ data = NoPage
    /\ result = NoResult
    /\ server = [p \in 1..MaxPages |-> NoPage]
    /\ clock = 0
    /\ retries = 0
    /\ requests = <<>>
    /\ yielded = <<>>
    /\ hinted = <<>>
    /\ other = OtherFresh

\* Number of requests the second iterator has sent: one per pull, each pull
\* either moving its cursor on or finishing it.
OtherSent == PositionOf(other.cursor) - 1 + (IF other.finished THEN 1 ELSE 0)

\* The cap on a run: the fetch stays within the server's positions and the
\* session's request budget.
CanFetch == PositionOf(cursor) <= MaxPages /\ Len(requests) + OtherSent < MaxRequests

\* ------------------------------------------------------------ __next__
\* Lines 95-98: __next__ raises StopIteration without running the loader when
\* self._finished is set, and so does next() of a generator that has ended.
ExhaustedIgnoringFinished == data_it = "dead"
Exhausted == finished \/ data_it = "dead"

\* Lines 93-98: the entry of __next__, up to the call of next(self._data_it).
CallNext ==
    /\ kind # "none"
    /\ op = "idle"
    /\ IF Exhausted
       THEN \* raise StopIteration (line 96), or next() of an ended generator
            /\ result' = StopIteration("next")
            /\ UNCHANGED <<op, pc>>
       ELSE /\ CanFetch
            /\ op' = "next"
            /\ pc' = "load"
            /\ UNCHANGED result
    /\ UNCHANGED <<iterVars, kind, target, rhx, headers, cookies, account, resolved,
                   data, server, clock, retries, requests, yielded, hinted>>
    /\ UNCHANGED other

\* Line 81: "if self._total is None" guards the fetch of __length_hint__.
EstimateKnownAndPositive == total # None /\ total > 0
EstimateKnown == total # None

\* Lines 80-88: __length_hint__ does not assign self._cursor, whatever page d
\* it has read ahead.
HintCursorAdvanced(d) ==
    IF HasNextOutcome(d) = "ok" /\ EndCursorOutcome(d) = "ok" /\ d.has_next_page
    THEN d.end_cursor ELSE cursor
HintCursor(d) == cursor

\* Lines 80-83: the entry of __length_hint__.
CallLengthHint ==
    /\ kind # "none"
    /\ op = "idle"
    /\ IF EstimateKnown
       THEN /\ result' = Result("hint", "return", total - done, NoPage)
            /\ hinted' = <<total - done>>
            /\ UNCHANGED <<op, pc, total>>
       ELSE IF data_it = "dead"
       THEN \* except StopIteration: self._total = 0
            /\ total' = 0
            /\ result' = Result("hint", "return", 0 - done, NoPage)
            /\ hinted' = <<0 - done>>
            /\ UNCHANGED <<op, pc>>
       ELSE /\ CanFetch
            /\ op' = "hint"
            /\ pc' = "load"
            /\ UNCHANGED <<result, total, hinted>>
    /\ UNCHANGED <<finished, cursor, current_page, done, data_it, kind, target, rhx,
                   headers, cookies, account, resolved, data, server, clock, retries,
                   requests, yielded>>
    /\ UNCHANGED other

\* ------------------------------------------------------------ _page_loader
\* self._total after the inner try of lines 70-74 on response body r.
TotalAfterKeep(r, old) ==
    IF CountOutcome(r) = "ok" THEN CeilDiv(r.count, PAGE_SIZE) ELSE old
TotalAfter(r, old) ==
    IF CountOutcome(r) = "ok" THEN CeilDiv(r.count, PAGE_SIZE) ELSE 0

\* Line 65: session.headers['X-CSRFToken'] raises KeyError when the session
\* has no such header.
CsrfMissingIgnored == FALSE
CsrfMissing == headers.csrf = "absent"

\* Lines 77-78: where the loader goes on a KeyError raised inside its try: the
\* except clause, which sleeps and loops.
AfterKeyErrorRaise == "raised"
AfterKeyError == "sleep"

\* Lines 75-77: where the loader goes at "yield data['data']" on body r: a
\* missing key is a KeyError, a null body a TypeError that ends the generator,
\* anything else is handed to the caller.
AfterResponseRetryOnNull(r) ==
    CASE r.shape \in {"noData", "dataNull"} -> AfterKeyError
      [] r.shape = "bodyNull" -> "raised"
      [] OTHER -> "yielded"
AfterResponse(r) ==
    CASE r.shape = "noData" -> AfterKeyError
      [] r.shape = "bodyNull" -> "raised"
      [] OTHER -> "yielded"

\* Lines 63-66: the signature written to the session's x-instagram-gis header
\* for the query params.
SignedHeaderOnce(params) ==
    IF headers.gis = <<>> THEN <<Md5(rhx, headers.csrf, params)>> ELSE headers.gis
SignedHeader(params) == <<Md5(rhx, headers.csrf, params)>>

\* One pass of the while loop, lines 61-77: build and sign the query, GET it,
\* set self._total, and yield data['data'] or fall into the except clause.
LoaderIter ==
    /\ pc = "load"
    /\ IF CsrfMissing
       THEN \* no request is sent
            /\ pc' = AfterKeyError
            /\ UNCHANGED <<headers, requests, server, total, data, data_it>>
       ELSE LET params == Getparams(cursor)
                p == PositionOf(params.after)
            IN  \E r \in Responses(p) :
                  /\ headers' = [headers EXCEPT !.gis = SignedHeader(params)]
                  /\ requests' = Append(requests,
                        [after |-> params.after, time |-> clock, gis |-> headers'.gis,
                         prev |-> headers.gis, resp |-> r.shape, op |-> op,
                         seen |-> Len(yielded)])
                  /\ server' = IF IsPage(r) THEN [server EXCEPT ![p] = r] ELSE server
                  /\ total' = TotalAfter(r, total)
                  /\ pc' = AfterResponse(r)
                  /\ data' = IF pc' = "yielded" THEN r ELSE data
                  \* a TypeError at the yield ends the generator
                  /\ data_it' = IF r.shape = "bodyNull" THEN "dead" ELSE data_it
    /\ UNCHANGED <<finished, cursor, current_page, done, kind, target, rhx, cookies,
                   account, resolved, op, result, clock, retries, yielded, hinted>>
    /\ UNCHANGED other

\* Line 78: time.sleep(10), then back to the top of the loop.
LoaderSleep ==
    /\ pc = "sleep"
    /\ retries < MaxRetries
    /\ clock' = clock + SLEEP
    /\ retries' = retries + 1
    /\ pc' = "load"
    /\ UNCHANGED <<iterVars, kind, target, rhx, headers, cookies, account, resolved,
                   op, data, result, server, requests, yielded, hinted>>
    /\ UNCHANGED other

\* ------------------------------------------------------ __next__, continued
\* What the rest of __next__ does: the exception it raises ("none": it returns
\* data[generic]) and the fields it leaves behind.
Outcome(exc, fin, cur, cp) ==
    [exc |-> exc, finished |-> fin, cursor |-> cur, current_page |-> cp]

\* Lines 102-104: except (TypeError, KeyError)
OnMismatchRaise == Outcome("KeyError", finished, cursor, current_page)
OnMismatch == Outcome("StopIteration", TRUE, cursor, current_page)
\* Lines 106-107: not has_next_page
OnLastPageDropped == Outcome("StopIteration", TRUE, cursor, current_page)
OnLastPage == Outcome("none", TRUE, cursor, current_page)
\* Lines 108-110: not media_info['edges']
OnEmptyEdgesYield == Outcome("none", finished, cursor, current_page)
OnEmptyEdges == Outcome("StopIteration", TRUE, cursor, current_page)
\* Lines 111-113: the cursor moves to end_cursor
OnAdvance(d) == Outcome("none", finished, d.end_cursor, current_page + 1)
\* An exception no clause of __next__ catches
OnError(exc) == Outcome(exc, finished, cursor, current_page)

\* Lines 100-115 on the data object d the loader yielded.
NextStep(d) ==
    IF MediaOutcome(d) # "ok" THEN OnMismatch
    ELSE IF HasNextOutcome(d) # "ok" THEN OnError(HasNextOutcome(d))
    ELSE IF ~d.has_next_page THEN OnLastPage
    ELSE IF EdgesOutcome(d) # "ok" THEN OnError(EdgesOutcome(d))
    ELSE IF d.edges = 0 THEN OnEmptyEdges
    ELSE IF EndCursorOutcome(d) # "ok" THEN OnError(EndCursorOutcome(d))
    ELSE OnAdvance(d)

\* Lines 98-115: next(self._data_it) has returned or raised; the rest of __next__.
NextResume ==
    /\ op = "next"
    /\ pc \in {"yielded", "raised"}
    /\ op' = "idle"
    /\ pc' = "idle"
    /\ data' = NoPage
    /\ IF pc = "raised"
       THEN \* the loader's TypeError passes through __next__
            /\ result' = Raised("next", "TypeError")
            /\ UNCHANGED <<finished, cursor, current_page, yielded>>
       ELSE LET o == NextStep(data)
            IN  /\ finished' = o.finished
                /\ cursor' = o.cursor
                /\ current_page' = o.current_page
                /\ IF o.exc = "none"
                   THEN /\ result' = Result("next", "return", 0, GenericSection(data))
                        /\ yielded' = Append(yielded, GenericSection(data))
                   ELSE /\ result' = Raised("next", o.exc)
                        /\ UNCHANGED yielded
    /\ UNCHANGED <<total, done, data_it, kind, target, rhx, headers, cookies, account,
                   resolved, server, clock, retries, requests, hinted>>
    /\ UNCHANGED other

\* ------------------------------------------------ __length_hint__, continued
\* Lines 84-87 on the data object d: the exception raised and self._total.
HintStep(d) ==
    CASE CountOutcome(d) = "ok" -> [exc |-> "none", total |-> CeilDiv(d.count, PAGE_SIZE)]
      [] CountOutcome(d) = "TypeError" -> [exc |-> "none", total |-> 0]
      [] OTHER -> [exc |-> "KeyError", total |-> total]

\* Lines 83-88: next(self._data_it) has returned or raised; the rest of the hint.
HintResume ==
    /\ op = "hint"
    /\ pc \in {"yielded", "raised"}
    /\ op' = "idle"
    /\ pc' = "idle"
    /\ data' = NoPage
    /\ cursor' = IF pc = "raised" THEN cursor ELSE HintCursor(data)
    /\ IF pc = "raised"
       THEN \* except (StopIteration, TypeError): self._total = 0
            /\ total' = 0
            /\ result' = Result("hint", "return", 0 - done, NoPage)
            /\ hinted' = <<0 - done>>
       ELSE LET h == HintStep(data)
            IN  /\ total' = h.total
                /\ IF h.exc = "none"
                   THEN /\ result' = Result("hint", "return", h.total - done, NoPage)
                        /\ hinted' = <<h.total - done>>
                   ELSE /\ result' = Raised("hint", h.exc)
                        /\ UNCHANGED hinted
    /\ UNCHANGED <<finished, current_page, done, data_it, kind, target, rhx,
                   headers, cookies, account, resolved, server, clock, retries,
                   requests, yielded>>
    /\ UNCHANGED other

\* ------------------------------------------------------------ from_username
\* Lines 167-168: next((ck.value for ck in jar if ck.name == "ds_user_id"), None)
RECURSIVE ConnectedId(_)
ConnectedId(jar) ==
    IF jar = <<>> THEN None
    ELSE IF Head(jar).name = "ds_user_id" THEN Head(jar).value
    ELSE ConnectedId(Tail(jar))

\* Line 166: data['is_private'] and not data['followed_by_viewer']
MustCheckCookieWhenPrivate(a) == a.is_private
MustCheckCookie(a) == a.is_private /\ ~a.followed_by_viewer

\* get_shared_data(res.text) of instalooter/_utils.py: what it raises on the
\* page of account a ("ok": it returns the decoded payload). No payload in the
\* page and a payload that is not JSON both make it fail.
GetSharedData(a) ==
    CASE a.shape = "absent" -> "AttributeError"
      [] a.shape = "malformed" -> "ValueError"
      [] OTHER -> "ok"

\* Lines 153-160: _user_data turns ValueError and AttributeError into
\* ValueError("account not found: ...").
UserData(a) ==
    IF GetSharedData(a) \in {"ValueError", "AttributeError"} THEN "ValueError"
    ELSE GetSharedData(a)

\* Line 165: user_data['entry_data']['ProfilePage'][0]['graphql']['user']
ProfilePageOutcome(a) == IF a.shape = "noProfilePage" THEN "KeyError" ELSE "ok"

\* Lines 164-171: what from_username raises ("ok": it returns the iterator).
ResolutionAbsentCookiePasses(a, jar) ==
    IF UserData(a) # "ok" THEN UserData(a)
    ELSE IF ProfilePageOutcome(a) # "ok" THEN ProfilePageOutcome(a)
    ELSE IF MustCheckCookie(a) /\ ConnectedId(jar) \notin {None, a.id}
         THEN "RuntimeError"
    ELSE "ok"
Resolution(a, jar) ==
    IF UserData(a) # "ok" THEN UserData(a)
    ELSE IF ProfilePageOutcome(a) # "ok" THEN ProfilePageOutcome(a)
    ELSE IF MustCheckCookie(a) /\ ConnectedId(jar) # a.id THEN "RuntimeError"
    ELSE "ok"

\* ProfileIterator.from_username(username, session), lines 162-171.
FromUsername ==
    /\ kind = "none"
    /\ resolved = "none"
    /\ resolved' = Resolution(account, cookies)
    /\ IF resolved' = "ok"
       THEN Constructed("profile", account.id, account.rhx_gis)
       ELSE UNCHANGED <<iterVars, kind, target, rhx>>
    /\ UNCHANGED <<headers, cookies, account, op, pc, data, result, server, clock,
                   retries, requests, yielded, hinted>>
    /\ UNCHANGED other

\* Before from_username is called: no iterator exists yet.
InitResolve ==
    /\ finished = FALSE
    /\ cursor = None
    /\ current_page = 0
    /\ total = None
    /\ done = 0
    /\ data_it = "none"
    /\ kind = "none"
    /\ target = 0
    /\ rhx = "none"
    /\ headers = [csrf |-> "csrftoken", gis |-> <<>>]
    /\ cookies \in Jars
    /\ account \in Accounts
    /\ resolved = "none"
    /\ op = "idle"
    /\ pc = "idle"
    /\ data = NoPage
    /\ result = NoResult
    /\ server = [p \in 1..MaxPages |-> NoPage]
    /\ clock = 0
    /\ retries = 0
    /\ requests = <<>>
    /\ yielded = <<>>
    /\ hinted = <<>>
    /\ other = OtherFresh

NextResolve == FromUsername

ResolveSpec == InitResolve /\ [][NextResolve]_vars

Next ==
    \/ CallNext
    \/ CallLengthHint
    \/ LoaderIter
    \/ LoaderSleep
    \/ NextResume
    \/ HintResume

Spec == Init /\ [][Next]_vars

\* ------------------------------------------- two iterators, one session
\* A whole __next__ of the second iterator (lines 93-115 with one pass of
\* lines 61-76), taken while the first iterator is between its calls: it
\* signs its query into the session's header, sends it, and on the page it
\* gets either moves its cursor on or finishes.
OtherPull ==
    /\ kind # "none"
    /\ op = "idle"
    /\ ~CsrfMissing
    /\ ~other.finished
    /\ PositionOf(other.cursor) <= MaxPages
    /\ Len(requests) + OtherSent < MaxRequests
    /\ headers' = [headers EXCEPT
                     !.gis = <<Md5(Other.rhx, headers.csrf, OtherGetparams(other.cursor))>>]
    /\ \E has_next_page \in BOOLEAN :
          other' = IF has_next_page
                   THEN [other EXCEPT !.cursor = TokenOf(PositionOf(other.cursor))]
                   ELSE [other EXCEPT !.finished = TRUE]
    /\ UNCHANGED <<iterVars, kind, target, rhx, cookies, account, resolved, op, pc, data,
                   result, server, clock, retries, requests, yielded, hinted>>

\* A ProfileIterator and a HashtagIterator on a session that has a CSRF token.
InitShared == Init /\ ~CsrfMissing /\ kind = "profile"

NextShared == Next \/ OtherPull

SharedSpec == InitShared /\ [][NextShared]_vars

\* The code is sequential and blocking: once a public call is entered, the
\* loader's loop and the rest of the call run on; only the caller's next call
\* is optional.
Fairness ==
    /\ WF_vars(LoaderIter)
    /\ WF_vars(LoaderSleep)
    /\ WF_vars(NextResume)
    /\ WF_vars(HintResume)

LiveSpec == Init /\ [][Next]_vars /\ Fairness

\* ------------------------------------------------------------ claims
\* A data object with every key of the response schema.
WellFormed(pg) == pg.shape = "media" /\ pg.missing = "none"

\* The positions the server has been asked for and answered with a page.
Served == {p \in 1..MaxPages : server[p] # NoPage}

\* The server's sequence is N well-formed pages: 1..N-1 have has_next_page and
\* edges, N has has_next_page = false, and no body it sent was JSON null.
ChainOf(n) ==
    /\ \A p \in 1..n : /\ p \in Served
                       /\ WellFormed(server[p])
                       /\ (p < n => server[p].has_next_page /\ server[p].edges > 0)
    /\ ~server[n].has_next_page
    /\ \A i \in 1..Len(requests) : requests[i].resp # "bodyNull"

\* The pages served so far are a prefix of such a sequence.
ChainPrefix ==
    /\ \A p \in Served : /\ WellFormed(server[p])
                         /\ \A q \in 1..(p - 1) :
                               q \in Served /\ server[q].has_next_page
                                            /\ server[q].edges > 0
    /\ \A i \in 1..Len(requests) : requests[i].resp # "bodyNull"

\* C1: over a server sequence of N well-formed pages (1..N-1 with has_next_page
\* and edges, N with has_next_page false) the pulls yield exactly the generic
\* sections of pages 1..N, in order, raise no error, signal end-of-stream only
\* after the N-th object, and the pull after the N-th object signals it.
C1_YieldsAllPagesInOrder ==
    /\ [](ChainPrefix =>
            /\ Len(yielded) <= Cardinality(Served)
            /\ \A i \in 1..Len(yielded) : yielded[i] = [server[i] EXCEPT !.shape = "generic"]
            /\ (result.op = "next" => result.kind \in {"return", "StopIteration"})
            /\ \A n \in 1..MaxPages : ChainOf(n) =>
                  /\ Len(yielded) <= n
                  /\ (finished <=> Len(yielded) = n)
                  /\ (result.op = "next" /\ result.kind = "StopIteration"
                        => Len(yielded) = n))
    /\ [][\A n \in 1..MaxPages :
            (ChainOf(n) /\ Len(yielded) = n /\ op = "idle" /\ op' = "idle"
               /\ result' # result /\ result'.op = "next")
            => (result'.kind = "StopIteration" /\ yielded' = yielded
                  /\ requests' = requests)]_vars

\* C1 witness: two pages were yielded from a two-page sequence and the third
\* pull signalled end-of-stream.
C1_Witness ==
    /\ ChainOf(2)
    /\ Len(yielded) = 2
    /\ yielded[2].pos = 2
    /\ result = StopIteration("next")
    /\ \A i \in 1..Len(requests) : requests[i].op = "next"

\* The end_cursor of the last non-terminal page among ys (None when there is none).
RECURSIVE LastEndCursor(_)
LastEndCursor(ys) ==
    IF ys = <<>> THEN None
    ELSE IF ys[Len(ys)].has_next_page /\ ys[Len(ys)].edges > 0
         THEN ys[Len(ys)].end_cursor
         ELSE LastEndCursor(SubSeq(ys, 1, Len(ys) - 1))

\* C2: the first request carries a null cursor; every request carries the
\* end_cursor of the last non-terminal page yielded before it; and the cursor
\* changes only in a pull that yields a page with has_next_page and edges,
\* to that page's end_cursor.
C2_CursorFollowsEndCursorChain ==
    /\ [](/\ (requests # <<>> => requests[1].after = None)
          /\ \A i \in 1..Len(requests) :
                requests[i].after = LastEndCursor(SubSeq(yielded, 1, requests[i].seen))
          /\ \A i \in 2..Len(yielded) :
                \E j \in 1..Len(requests) :
                    /\ requests[j].seen = i - 1
                    /\ requests[j].after = yielded[i - 1].end_cursor)
    /\ [][cursor' # cursor =>
            /\ op = "next"
            /\ yielded' = Append(yielded, [data EXCEPT !.shape = "generic"])
            /\ data.has_next_page /\ data.edges > 0
            /\ cursor' = data.end_cursor]_vars

\* C2 witness: the request for the third page went out with the second page's
\* end_cursor.
C2_Witness ==
    /\ Len(yielded) >= 2
    /\ Len(requests) >= 3
    /\ requests[Len(requests)].seen = 2
    /\ requests[Len(requests)].after = yielded[2].end_cursor
    /\ yielded[2].end_cursor # None

\* C3: once finished is set it stays set, no later step sends a request or
\* touches the session's headers, no pull or length request is left pending,
\* and every pull after it signals end-of-stream.
C3_FinishedIsAbsorbingAndSilent ==
    [][finished =>
         /\ finished'
         /\ requests' = requests
         /\ headers' = headers
         /\ op = "idle" /\ op' = "idle"
         /\ (result' # result \/ hinted' # hinted =>
               \/ result' = StopIteration("next")
               \/ result'.op = "hint" /\ result'.kind = "return")]_vars

\* C3 witness: finished, and both a pull and a length request were made after it.
C3_Witness ==
    /\ finished
    /\ result = StopIteration("next")
    /\ hinted # <<>>
    /\ Len(yielded) >= 1
    /\ yielded[Len(yielded)].has_next_page = FALSE

\* C4 as stated: a pull never returns a page whose edges are empty.
C4_Original_EmptyEdgesNeverYielded ==
    (op = "idle" /\ result.op = "next" /\ result.kind = "return"
        /\ result.obj.missing = "none")
    => result.obj.edges > 0

\* C4 amended: a fetched page with has_next_page = true and empty edges is not
\* yielded, the pull signals end-of-stream and the iterator becomes finished;
\* a fetched page with has_next_page = false and empty edges is yielded by the
\* pull, and the iterator becomes finished.
C4_EmptyEdgesPage ==
    [][(op = "next" /\ pc = "yielded" /\ data.shape = "media" /\ data.edges = 0
          /\ data.missing \notin {"page_info", "has_next_page", "edges"})
         => /\ finished'
            /\ op' = "idle"
            /\ cursor' = cursor
            /\ IF data.has_next_page
               THEN result' = StopIteration("next") /\ yielded' = yielded
               ELSE /\ result' = Result("next", "return", 0,
                                        [data EXCEPT !.shape = "generic"])
                    /\ yielded' = Append(yielded, [data EXCEPT !.shape = "generic"])]_vars

\* C4 witness: the second page had has_next_page = true and no edges, and the
\* pull that fetched it signalled end-of-stream.
C4_Witness ==
    /\ 2 \in Served
    /\ WellFormed(server[2])
    /\ server[2].has_next_page /\ server[2].edges = 0
    /\ finished
    /\ Len(yielded) = 1
    /\ result = StopIteration("next")

\* The data objects without a navigable generic/media section: a key missing
\* or a value on the way to the media section null.
Mismatched == {"dataNull", "noGeneric", "genericNull", "noMedia"}

AllReport(c) ==
    /\ Served # {}
    /\ \A p \in Served : WellFormed(server[p]) /\ server[p].count = c

\* C6 as stated: after k yielded pages a length request returns
\* ceil(count / 200) - k.
C6_Original_HintCountsDown ==
    \A c \in Counts :
        (AllReport(c) /\ op = "idle" /\ result.op = "hint" /\ result.kind = "return")
        => result.hint = ((c + 199) \div 200) - Len(yielded)

\* C7 as stated: the values successive length requests return never increase.
C7_Original_HintNeverIncreases ==
    [][(hinted # <<>> /\ hinted' # <<>> /\ \A p \in Served : WellFormed(server[p]))
         => hinted'[1] <= hinted[1]]_vars

\* C9 as stated: no pull and no length request ends by raising a missing-key
\* error.
C9_Original_NoKeyErrorSurfaces ==
    result.kind # "KeyError"

\* A page __next__ returns: well-formed, and not an empty non-terminal page.
Returnable(d) == WellFormed(d) /\ (d.edges > 0 \/ ~d.has_next_page)

\* C8: after a response without the data key the loader sends the same request
\* again, no sooner than 10 time units later; the pull that met the malformed
\* response ends, and when the answer to the repeated request is a well-formed
\* page it returns that page's generic section and raises nothing.
C8_MalformedThenWellFormed ==
    /\ [](\A i \in 1..(Len(requests) - 1) :
            requests[i].resp = "noData" =>
                /\ requests[i + 1].time >= requests[i].time + 10
                /\ requests[i + 1].after = requests[i].after
                /\ requests[i + 1].op = requests[i].op)
    /\ [][(op = "next" /\ pc = "yielded" /\ Len(requests) >= 2
             /\ requests[Len(requests) - 1].resp = "noData" /\ Returnable(data))
          => result' = Result("next", "return", 0, [data EXCEPT !.shape = "generic"])]_vars
    /\ ((op = "next" /\ pc = "sleep" /\ headers.csrf # "absent")
          ~> (op = "idle" /\ result.op = "next"
                /\ requests[Len(requests)].resp # "noData"))

\* C8 witness: a pull met a malformed response, slept, asked again and
\* returned the well-formed page.
C8_Witness ==
    /\ Len(requests) = 2
    /\ requests[1].resp = "noData"
    /\ requests[2].resp = "media"
    /\ requests[2].time = requests[1].time + 10
    /\ op = "idle"
    /\ result.op = "next" /\ result.kind = "return"
    /\ result.obj = [server[1] EXCEPT !.shape = "generic"]
    /\ WellFormed(server[1])

\* The jar's first ds_user_id cookie carries the value v.
FirstIdentityCookieIs(v) ==
    \E i \in 1..Len(cookies) :
        /\ cookies[i] = [name |-> "ds_user_id", value |-> v]
        /\ \A j \in 1..(i - 1) : cookies[j].name # "ds_user_id"

\* C10 as stated: a private account resolves only when the identity cookie
\* equals the owner id, and is denied otherwise.
C10_Original_PrivateNeedsCookie ==
    (resolved # "none" /\ account.shape = "profile" /\ account.is_private)
    => IF FirstIdentityCookieIs(account.id)
       THEN resolved = "ok"
       ELSE resolved = "RuntimeError"

\* C10 amended: resolution of a public account succeeds whatever the jar
\* holds; of a private account the viewer follows, likewise; of a private
\* account the viewer does not follow, it succeeds if the jar's ds_user_id
\* cookie is present and equals the owner id, and fails with the
\* access-denied error otherwise.
C10_ResolutionByVisibility ==
    (resolved # "none" /\ account.shape = "profile")
    => /\ (~account.is_private => resolved = "ok")
       /\ (account.is_private /\ account.followed_by_viewer => resolved = "ok")
       /\ (account.is_private /\ ~account.followed_by_viewer =>
             IF FirstIdentityCookieIs(account.id)
             THEN resolved = "ok"
             ELSE resolved = "RuntimeError")
       /\ (resolved = "ok" <=> kind = "profile" /\ target = account.id)

\* C10 witness: a private account the viewer follows was resolved with no
\* identity cookie in the jar.
C10_Witness ==
    /\ resolved = "ok"
    /\ account.is_private
    /\ account.followed_by_viewer
    /\ ConnectedId(cookies) = None
    /\ kind = "profile"

\* C11 as stated: a handle whose payload is absent, malformed or without a
\* ProfilePage entry fails with the account-not-found error (ValueError) and
\* with no other exception, and no iterator is constructed.
C11_Original_UnresolvableIsNotFound ==
    (resolved # "none" /\ account.shape \in {"absent", "malformed", "noProfilePage"})
    => (resolved = "ValueError" /\ kind = "none")

\* C13: while the server answers with bodies that lack the data key, the
\* loader sleeps and sends the request again with the same cursor; no retry
\* changes cursor, page index, finished or the log of yields, and the call in
\* progress neither returns nor raises: it is still in progress after every
\* such response.
C13_MalformedRetriesKeepState ==
    /\ [](\A i \in 1..Len(requests) :
            requests[i].resp = "noData" =>
              /\ i = Len(requests) => (op = requests[i].op /\ pc \in {"sleep", "load"})
              /\ i < Len(requests) =>
                   /\ requests[i + 1].after = requests[i].after
                   /\ requests[i + 1].op = requests[i].op
                   /\ requests[i + 1].seen = requests[i].seen
                   /\ requests[i + 1].time = requests[i].time + SLEEP)
    /\ [][(pc' = "sleep" \/ pc = "sleep") =>
            /\ UNCHANGED <<cursor, current_page, finished, yielded, op, result>>
            /\ pc = "sleep" => (pc' = "load" /\ UNCHANGED requests)]_vars

\* Two malformed responses in a row to the request for a later page, the pull
\* still waiting.
C13_Witness ==
    /\ op = "next"
    /\ pc = "sleep"
    /\ cursor # None
    /\ Len(requests) >= 2
    /\ requests[Len(requests)].resp = "noData"
    /\ requests[Len(requests) - 1].resp = "noData"

\* C14 as stated: once the estimate of the number of pages has been set from
\* an observed count, no later fetch changes it, whether the later page
\* reports another count or none (the fetch delivering its page all the same).
C14_Original_EstimateSetOnce ==
    [][(/\ total # None
         /\ \E p \in Served : CountOutcome(server[p]) = "ok"
         /\ pc = "load"
         /\ pc' = "yielded")
         => total' = total]_vars

\* The server has answered every request with a page, so that equal requests
\* got equal pages.
EqualAnswers == \A i \in 1..Len(requests) : requests[i].resp \notin {"noData", "bodyNull"}

\* What pulls alone yield from position p on over the pages served so far:
\* lines 100-115 applied page after page, with no length request in between.
RECURSIVE PlainYields(_)
PlainYields(p) ==
    IF p \notin Served THEN <<>>
    ELSE LET d == server[p]
             o == NextStep(d)
         IN  IF o.exc # "none" THEN <<>>
             ELSE IF o.current_page = current_page + 1
                  THEN <<GenericSection(d)>> \o PlainYields(PositionOf(o.cursor))
                  ELSE <<GenericSection(d)>>

\* C15: length requests are transparent to the iteration. Over a server that
\* answers equal requests with equal pages, whatever length requests are made
\* before the first pull or between pulls, the objects yielded are the ones
\* pulls alone yield, in the same order and none skipped (the page a length
\* request read ahead is requested again and yielded by the next pull); the
\* iteration ends where pulls alone end it; and no step of a length request
\* changes cursor, page index, finished or the generator.
C15_LengthHintTransparent ==
    /\ [](EqualAnswers =>
            /\ Len(yielded) <= Len(PlainYields(1))
            /\ yielded = SubSeq(PlainYields(1), 1, Len(yielded))
            /\ (finished => yielded = PlainYields(1))
            /\ (~finished => PositionOf(cursor) = Len(yielded) + 1))
    /\ [][(EqualAnswers' /\ op = "next" /\ pc = "yielded")
            => data = server[Len(yielded) + 1]]_vars
    /\ [][(EqualAnswers' /\ (op = "hint" \/ op' = "hint" \/ hinted' # hinted))
            => UNCHANGED <<cursor, current_page, finished, data_it, yielded>>]_vars

\* The first request was made by a length request, two pulls then yielded
\* pages 1 and 2, and a later length request was answered from the estimate.
C15_Witness ==
    /\ EqualAnswers
    /\ Len(requests) = 3
    /\ requests[1].op = "hint"
    /\ requests[2].op = "next"
    /\ requests[2].after = None
    /\ Len(yielded) = 2
    /\ yielded[1].pos = 1
    /\ result.op = "hint"
    /\ result.kind = "return"

\* C16: length requests cause at most one page fetch over the life of an
\* iterator. A length request starts the loader only while the estimate is
\* unknown; every request sent on behalf of a length request is either the
\* first request of the iterator or a retry of it after a malformed response;
\* and once a fetch has set the estimate a length request returns at once and
\* sends nothing.
C16_HintFetchesAtMostOnce ==
    /\ [](\A i \in 1..Len(requests) :
            requests[i].op = "hint" =>
              \A j \in 1..(i - 1) : requests[j].op = "hint" /\ requests[j].resp = "noData")
    /\ [](Cardinality({i \in 1..Len(requests) :
                          requests[i].op = "hint" /\ requests[i].resp # "noData"}) <= 1)
    /\ [][(op = "idle" /\ op' = "hint") => (total = None /\ requests = <<>>)]_vars
    /\ [][(op = "idle" /\ requests # <<>> /\ result' # result /\ result'.op = "hint")
            => (op' = "idle" /\ requests' = requests /\ result'.kind = "return")]_vars

\* The first length request fetched page 1, a pull fetched it again, and a
\* second length request was then answered without a request.
C16_Witness ==
    /\ Len(requests) = 2
    /\ requests[1].op = "hint"
    /\ requests[1].resp # "noData"
    /\ requests[2].op = "next"
    /\ result.op = "hint"
    /\ result.kind = "return"
    /\ op = "idle"

\* C17 as stated: a length request made while the estimate is unknown, whose
\* fetched page lacks a navigable generic or media section or the count (a
\* key missing or an intermediate value null), returns 0 and raises no error.
C17_Original_HintZeroOnMissingCount ==
    (/\ op = "idle"
     /\ result.op = "hint"
     /\ requests # <<>>
     /\ requests[Len(requests)].op = "hint"
     /\ requests[Len(requests)].resp \notin {"noData", "bodyNull"}
     /\ CountOutcome(server[1]) # "ok")
    => (result.kind = "return" /\ result.hint = 0)

\* C18: from_username lets the identity cookie decide only for an account that
\* is private and not followed by the viewer: there an absent or non-matching
\* ds_user_id cookie gives the access-denied error and no iterator; in every
\* other case, whatever the jar holds, a fresh iterator is constructed with the
\* resolved owner id and the payload's rhx_gis token. Either way no page
\* request has been sent and the signature header has not been written.
C18_CookieGatesPrivateUnfollowed ==
    (resolved # "none" /\ account.shape = "profile")
    => LET gated == account.is_private /\ ~account.followed_by_viewer
           denied == gated /\ ~FirstIdentityCookieIs(account.id)
       IN  /\ resolved = (IF denied THEN "RuntimeError" ELSE "ok")
           /\ denied => (kind = "none" /\ data_it = "none" /\ rhx = "none")
           /\ ~denied => /\ kind = "profile"
                         /\ target = account.id
                         /\ rhx = account.rhx_gis
                         /\ data_it = "suspended"
                         /\ cursor = None
                         /\ total = None
                         /\ ~finished
           /\ requests = <<>>
           /\ headers.gis = <<>>

\* A private account the viewer does not follow, a jar that holds cookies but
\* no ds_user_id: access denied.
C18_Witness ==
    /\ resolved = "RuntimeError"
    /\ account.is_private
    /\ ~account.followed_by_viewer
    /\ cookies # <<>>
    /\ ConnectedId(cookies) = None
    /\ kind = "none"

\* C19: construction sends no request and leaves the signature header alone:
\* until a call has been made the request log is empty and the header unset.
\* The first request is sent inside the first pull or the first length
\* request, with a null cursor and before any yield. A pull made while the
\* iterator is not finished sends exactly one request unless a response is
\* malformed: the generator is alive, so the pull runs the loader; entering
\* the pull sends nothing, the loader's pass sends one
\* request and hands over unless the body lacks the data key, and the rest of
\* the pull sends nothing and ends it.
C19_RequestsOnlyInsidePulls ==
    /\ []((op = "idle" /\ result = NoResult) => (requests = <<>> /\ headers.gis = <<>>))
    /\ [](requests # <<>> =>
            /\ requests[1].op \in {"next", "hint"}
            /\ requests[1].after = None
            /\ requests[1].seen = 0
            /\ requests[1].prev = <<>>)
    /\ [](EqualAnswers => data_it # "dead")
    /\ [][(op = "idle" /\ op' = "next")
            => (~finished /\ pc' = "load" /\ UNCHANGED <<requests, headers>>)]_vars
    /\ [][(op = "next" /\ pc = "load" /\ ~CsrfMissing)
            => /\ Len(requests') = Len(requests) + 1
               /\ requests'[Len(requests')].resp # "noData" => pc' \in {"yielded", "raised"}]_vars
    /\ [][(op = "next" /\ pc \in {"yielded", "raised"})
            => (op' = "idle" /\ UNCHANGED <<requests, headers>>)]_vars

\* Two pulls, no malformed response, two requests, two pages yielded.
C19_Witness ==
    /\ op = "idle"
    /\ Len(requests) = 2
    /\ \A i \in 1..2 : requests[i].op = "next" /\ requests[i].resp = "media"
    /\ Len(yielded) = 2
    /\ retries = 0
    /\ ~finished

\* C20: on a session without the CSRF token header a pull, or a length
\* request made while the estimate is unknown, never returns, never raises
\* and never sends a request: no call ever completes, the log of requests
\* stays empty and the signature header unset, and the call in progress only
\* alternates between the failing pass of the loader and its sleep, which it
\* keeps doing as long as the run lasts.
C20_NoCsrfWaitsForever ==
    /\ [](headers.csrf = "absent" =>
            /\ requests = <<>>
            /\ headers.gis = <<>>
            /\ result = NoResult
            /\ yielded = <<>>
            /\ hinted = <<>>
            /\ (op # "idle" => pc \in {"load", "sleep"}))
    /\ [][(headers.csrf = "absent" /\ op # "idle") =>
            /\ op' = op
            /\ (pc = "load" => pc' = "sleep")
            /\ (pc = "sleep" => (pc' = "load" /\ clock' = clock + SLEEP))]_vars
    /\ (headers.csrf = "absent" /\ op # "idle") ~> (op # "idle" /\ retries = MaxRetries)

\* A length request on a session without the CSRF header, asleep after its
\* second failed pass.
C20_Witness ==
    /\ headers.csrf = "absent"
    /\ op = "hint"
    /\ pc = "sleep"
    /\ retries >= 2
    /\ requests = <<>>
    /\ total = None

\* The digest of the first iterator's query for cursor c, and of the second's.
OwnDigest(c) == <<Md5(rhx, headers.csrf, Getparams(c))>>
OtherDigest(c) == <<Md5(Other.rhx, headers.csrf, OtherGetparams(c))>>

\* C12: with two iterators on one session and their pulls interleaved in any
\* order, one whole pull at a time, every request goes out while the session's
\* signature header holds the digest of (the sending iterator's rhx, the CSRF
\* token, that request's own parameters), whatever the header held before the
\* pull, and never the digest of a query of the other iterator.
C12_RequestCarriesOwnDigest ==
    /\ [](\A i \in 1..Len(requests) :
            /\ requests[i].gis = OwnDigest(requests[i].after)
            /\ \A p \in 0..MaxPages :
                  requests[i].gis # OtherDigest(IF p = 0 THEN None ELSE TokenOf(p)))
    /\ [][Len(requests') > Len(requests)
            => headers'.gis = requests'[Len(requests')].gis]_vars
    /\ [][other' # other
            => (headers'.gis = OtherDigest(other.cursor) /\ requests' = requests)]_vars

\* The first iterator sent a request for a later page while the header held
\* the digest the second iterator had written for its own second page.
C12_Witness ==
    \E i \in 1..Len(requests) :
        /\ requests[i].after # None
        /\ requests[i].prev = OtherDigest(TokenOf(1))
        /\ requests[i].gis = OwnDigest(requests[i].after)
        /\ headers.gis = requests[Len(requests)].gis

====
